---- MODULE Spec2Model ----
(***************************************************************************)
(* TxExecutor: the concurrent block executor of cmd/main.go (package       *)
(* txexecutor).  Workers evaluate transactions speculatively and record    *)
(* the version of every account they read; one sequencer commits the       *)
(* results in block order, re-dispatching an index whose reads are stale.  *)
(***************************************************************************)
EXTENDS Integers, Sequences, FiniteSets, TLC

(* ------------------------------ bounds -------------------------------- *)
\* longest block explored
MaxTx == 2
\* largest worker pool explored (Workers ranges over 1..MaxWorkers)
MaxWorkers == 2
\* width of Go's uint in the model (64 in the build; balances wrap modulo 2^UintBits)
UintBits == 6

(* ------------------------------ values -------------------------------- *)
\* account names, listed in ascending lexicographic order
Names == <<"A", "B">>
NameSet == {Names[i] : i \in 1..Len(Names)}
NoName == "-"

RECURSIVE Pow2(_)
Pow2(n) == IF n = 0 THEN 1 ELSE 2 * Pow2(n - 1)
UintMod == Pow2(UintBits)

\* uint(x): conversion of an int to uint (two's complement wrap)
ToUint(x) == x % UintMod
\* int(x): conversion of a uint to int
ToInt(x) == IF x >= UintMod \div 2 THEN x - UintMod ELSE x

EmptyMap == [x \in {} |-> 0]

\* faulty variant: the entry is not deleted
MapDelNone(m, key) == m

MapDel(m, key) == [x \in (DOMAIN m) \ {key} |-> m[x]]

AccountUpdate(name, change) == [Name |-> name, BalanceChange |-> change]

(* -------------------- transactions (pkg/txexecutor) -------------------- *)
Transfer(from, to, value) ==
  [kind |-> "Transfer", from |-> from, tos |-> <<to>>, value |-> value, ups |-> <<>>]
Deposit(to, amount) ==
  [kind |-> "Deposit", from |-> NoName, tos |-> <<to>>, value |-> amount, ups |-> <<>>]
Withdraw(from, amount) ==
  [kind |-> "Withdraw", from |-> from, tos |-> <<>>, value |-> amount, ups |-> <<>>]
BatchTransfer(from, tos, amount) ==
  [kind |-> "BatchTransfer", from |-> from, tos |-> tos, value |-> amount, ups |-> <<>>]
Interest(accounts, rate) ==
  [kind |-> "Interest", from |-> NoName, tos |-> accounts, value |-> rate, ups |-> <<>>]
FeeSplit(account, fee, receivers) ==
  [kind |-> "FeeSplit", from |-> account, tos |-> receivers, value |-> fee, ups |-> <<>>]
\* Two further implementers of the Transaction interface: Blind returns a
\* fixed update list without reading any account; Bonus reads `watch` and,
\* when it holds at least `amount`, credits `amount` to `to` (it writes no
\* account it read).
Blind(ups) ==
  [kind |-> "Blind", from |-> NoName, tos |-> <<>>, value |-> 0, ups |-> ups]
Bonus(watch, to, amount) ==
  [kind |-> "Bonus", from |-> watch, tos |-> <<to>>, value |-> amount, ups |-> <<>>]

\* The name of the next GetAccount call of tx.Updates, given the balances
\* the earlier calls of this attempt returned (NoName: Updates returns).
NextRead(tx, obs) ==
  CASE tx.kind \in {"Transfer", "Withdraw", "BatchTransfer", "FeeSplit", "Bonus"} ->
         IF Len(obs) = 0 THEN tx.from ELSE NoName
    [] tx.kind = "Interest" ->
         IF Len(obs) < Len(tx.tos) THEN tx.tos[Len(obs) + 1] ELSE NoName
    [] OTHER -> NoName

Failed == [updates |-> <<>>, err |-> TRUE]
Ok(ups) == [updates |-> ups, err |-> FALSE]

\* What tx.Updates returns once its reads returned the balances obs.
UpdatesOf(tx, obs) ==
  CASE tx.kind = "Transfer" ->
         IF obs[1] < tx.value THEN Failed
         ELSE Ok(<<AccountUpdate(tx.from, -ToInt(tx.value)),
                   AccountUpdate(tx.tos[1], ToInt(tx.value))>>)
    [] tx.kind = "Deposit" ->
         IF tx.value = 0 THEN Failed
         ELSE Ok(<<AccountUpdate(tx.tos[1], ToInt(tx.value))>>)
    [] tx.kind = "Withdraw" ->
         IF obs[1] < tx.value THEN Failed
         ELSE Ok(<<AccountUpdate(tx.from, -ToInt(tx.value))>>)
    [] tx.kind = "BatchTransfer" ->
         LET total == ToUint(Len(tx.tos) * tx.value)
         IN  IF obs[1] < total THEN Failed
             ELSE Ok(<<AccountUpdate(tx.from, -ToInt(total))>>
                     \o [j \in 1..Len(tx.tos) |-> AccountUpdate(tx.tos[j], ToInt(tx.value))])
    [] tx.kind = "Interest" ->
         Ok([j \in 1..Len(tx.tos) |->
               AccountUpdate(tx.tos[j], ToInt(ToUint(obs[j] * tx.value) \div 100))])
    [] tx.kind = "FeeSplit" ->
         IF obs[1] < tx.value THEN Failed
         ELSE IF Len(tx.tos) = 0 THEN Failed
         ELSE LET per == tx.value \div Len(tx.tos)
              IN  Ok(<<AccountUpdate(tx.from, -ToInt(tx.value))>>
                     \o [j \in 1..Len(tx.tos) |-> AccountUpdate(tx.tos[j], ToInt(per))])
    [] tx.kind = "Blind" -> Ok(tx.ups)
    [] tx.kind = "Bonus" ->
         IF obs[1] < tx.value THEN Failed
         ELSE Ok(<<AccountUpdate(tx.tos[1], ToInt(tx.value))>>)

(* ------------------------------ inputs -------------------------------- *)
TxPool ==
  { Transfer("A", "B", 1), Transfer("B", "A", 1),
    Deposit("A", 1), Deposit("B", 0),
    Withdraw("A", 1),
    BatchTransfer("A", <<"B", "B">>, 1),
    Interest(<<"A", "A">>, 50),
    FeeSplit("B", 1, <<"A">>),
    Blind(<<AccountUpdate("A", -1)>>),
    Blind(<<AccountUpdate("A", -1), AccountUpdate("A", -1)>>),
    Blind(<<>>),
    Bonus("A", "B", 1) }

Blocks == UNION {[1..n -> TxPool] : n \in 0..MaxTx}

\* an account the store does not hold
Absent == [exists |-> FALSE, bal |-> 0, ver |-> 0]
\* a new(acct): zero balance, zero version
NewAcct == [exists |-> TRUE, bal |-> 0, ver |-> 0]

\* ResetState(initial): every listed account at its balance and version 0
ResetState(initial) ==
  [n \in NameSet |->
     IF n \in DOMAIN initial THEN [exists |-> TRUE, bal |-> initial[n], ver |-> 0]
     ELSE Absent]

InitialAccounts == { ("A" :> 1), ("A" :> 2) @@ ("B" :> 1) }

(* ------------------------------- state -------------------------------- *)
VARIABLES
  block,       \* b.Transactions (block[idx + 1] is transaction idx)
  Workers,     \* the size of the worker pool
  initial,     \* the accounts ResetState was given
  state,       \* the account store: name -> acct (bal, ver), or Absent
  mu,          \* acct.mu: name -> holder (Free, a worker id, or SeqId)
  execCh,      \* work channel (buffered, capacity N)
  execClosed,  \* close(execCh) has run
  resCh,       \* result channel (buffered, capacity N)
  wk,          \* per worker: pc, idx, ctx.reads, balances GetAccount returned
  spc,         \* the sequencer's position in ExecuteBlock
  i,           \* the dispatch loop's index
  k,           \* expected tx id to commit
  ready,       \* processed txs: idx -> txResult
  r,           \* the txResult commitTx is working on
  locked,      \* commitTx: how many entries of names are locked
  ok,          \* what commitTx returned
  final,       \* the returned []AccountValue
  outcome,     \* history: the verdict of the last commitTx
  finalized,   \* history: the indices finalized so far, in order
  arrivals,    \* history: the indices of the results received, in order
  evals,       \* history: idx -> number of evaluations started
  att,         \* history: idx -> its latest attempt (started with the cursor
               \* at idx or beyond; the balances its GetAccount calls returned)
  exact        \* history: name -> balance in exact integer arithmetic

vars == <<block, Workers, initial, state, mu, execCh, execClosed, resCh, wk, spc,
          i, k, ready, r, locked, ok, final, outcome, finalized, arrivals, evals,
          att, exact>>

N == Len(block)
Free == 0
SeqId == -1
WorkerIds == 1..MaxWorkers
NoResult == [idx |-> -1, updates |-> <<>>, reads |-> EmptyMap, err |-> FALSE]
IdleWorker == [pc |-> "idle", idx |-> -1, reads |-> EmptyMap, obs |-> <<>>, lock |-> NoName]

\* faulty variant: stores a new(acct) under the name on every reference
ensureAcctFresh(st, name) == [st EXCEPT ![name] = NewAcct]

\* ensureAcct(name): the store after the call (the entry is created if absent)
ensureAcct(st, name) ==
  IF st[name].exists THEN st ELSE [st EXCEPT ![name] = NewAcct]

\* names of a (sub)set in ascending order: sort.Strings
SortStrings(S) == SelectSeq(Names, LAMBDA n : n \in S)

\* faulty variant: the touched set holds the read names only
TouchedNamesReadOnly(res) == SortStrings(DOMAIN res.reads)

\* commitTx, lines 197-209: the touched set, sorted
TouchedNames(res) ==
  SortStrings((DOMAIN res.reads) \cup {res.updates[j].Name : j \in 1..Len(res.updates)})

Init ==
  /\ block \in Blocks
  /\ Workers \in 1..MaxWorkers
  /\ initial \in InitialAccounts
  /\ state = ResetState(initial)
  /\ mu = [n \in NameSet |-> Free]
  /\ execCh = <<>>
  /\ execClosed = FALSE
  /\ resCh = <<>>
  /\ wk = [w \in WorkerIds |-> IdleWorker]
  /\ spc = "dispatch"
  /\ i = 0
  /\ k = 0
  /\ ready = EmptyMap
  /\ r = NoResult
  /\ locked = 0
  /\ ok = FALSE
  /\ final = <<>>
  /\ outcome = "None"
  /\ finalized = <<>>
  /\ arrivals = <<>>
  /\ evals = [j \in 0..(Len(block) - 1) |-> 0]
  /\ att = [j \in 0..(Len(block) - 1) |-> [late |-> FALSE, obs |-> <<>>]]
  /\ exact = [n \in NameSet |-> ResetState(initial)[n].bal]

(* ------------------------------ workers ------------------------------- *)
\* for idx := range execCh: receive the next index, ctx := newTxCtx()
WorkerRecv(w) ==
  /\ w <= Workers
  /\ wk[w].pc = "idle"
  /\ Len(execCh) > 0
  /\ wk' = [wk EXCEPT ![w] = [pc |-> "run", idx |-> Head(execCh), reads |-> EmptyMap,
                              obs |-> <<>>, lock |-> NoName]]
  /\ execCh' = Tail(execCh)
  /\ evals' = [evals EXCEPT ![Head(execCh)] = @ + 1]
  /\ att' = [att EXCEPT ![Head(execCh)] = [late |-> k >= Head(execCh), obs |-> <<>>]]
  /\ UNCHANGED <<block, Workers, initial, state, mu, execClosed, resCh, spc, i, k,
                 ready, r, locked, ok, final, outcome, finalized, arrivals, exact>>

\* faulty variant: the receive loop never notices that the channel is closed
RangeDoneNever(ch, closed) == FALSE

\* line 136: range over a channel ends once it is closed and drained
RangeDone(ch, closed) == Len(ch) = 0 /\ closed

\* range over a closed and drained channel ends: the goroutine returns
WorkerExit(w) ==
  /\ w <= Workers
  /\ wk[w].pc = "idle"
  /\ RangeDone(execCh, execClosed)
  /\ wk' = [wk EXCEPT ![w].pc = "exit"]
  /\ UNCHANGED <<block, Workers, initial, state, mu, execCh, execClosed, resCh, spc, i,
                 k, ready, r, locked, ok, final, outcome, finalized, arrivals, evals, att, exact>>

\* GetAccount, lines 108-109: ensureAcct(name); ac.mu.Lock()
GetAccountLock(w) ==
  /\ w <= Workers
  /\ wk[w].pc = "run"
  /\ LET n == NextRead(block[wk[w].idx + 1], wk[w].obs)
     IN  /\ n # NoName
         /\ mu[n] = Free
         /\ state' = ensureAcct(state, n)
         /\ mu' = [mu EXCEPT ![n] = w]
         /\ wk' = [wk EXCEPT ![w].pc = "locked", ![w].lock = n]
  /\ UNCHANGED <<block, Workers, initial, execCh, execClosed, resCh, spc, i, k, ready,
                 r, locked, ok, final, outcome, finalized, arrivals, evals, att, exact>>

\* GetAccount, lines 110-115: record the first-seen version, return the
\* balance, unlock (deferred)
GetAccountRead(w) ==
  /\ w <= Workers
  /\ wk[w].pc = "locked"
  /\ LET n == wk[w].lock
     IN  /\ wk' = [wk EXCEPT ![w].pc = "run", ![w].lock = NoName,
                             ![w].reads = IF n \in DOMAIN @ THEN @
                                          ELSE (n :> state[n].ver) @@ @,
                             ![w].obs = Append(@, state[n].bal)]
         /\ mu' = [mu EXCEPT ![n] = Free]
  /\ UNCHANGED <<block, Workers, initial, state, execCh, execClosed, resCh, spc, i, k,
                 ready, r, locked, ok, final, outcome, finalized, arrivals, evals, att, exact>>

\* Updates returned: resCh <- txResult{idx, upd, ctx.reads, err}
WorkerSend(w) ==
  /\ w <= Workers
  /\ wk[w].pc = "run"
  /\ NextRead(block[wk[w].idx + 1], wk[w].obs) = NoName
  /\ Len(resCh) < N
  /\ LET res == UpdatesOf(block[wk[w].idx + 1], wk[w].obs)
     IN  resCh' = Append(resCh, [idx |-> wk[w].idx, updates |-> res.updates,
                                 reads |-> wk[w].reads, err |-> res.err])
  /\ wk' = [wk EXCEPT ![w] = IdleWorker]
  /\ att' = [att EXCEPT ![wk[w].idx].obs = wk[w].obs]
  /\ UNCHANGED <<block, Workers, initial, state, mu, execCh, execClosed, spc, i, k,
                 ready, r, locked, ok, final, outcome, finalized, arrivals, evals, exact>>

\* faulty variant: the comparison of the version check is inverted
StaleReadInverted(st, res) == \E n \in DOMAIN res.reads : st[n].ver = res.reads[n]

(* ----------------------------- commitTx ------------------------------- *)
\* faulty variant: only a read version above the account's version counts as stale
StaleReadOlder(st, res) == \E n \in DOMAIN res.reads : st[n].ver < res.reads[n]

\* lines 219-227: some read version differs from the account's version
StaleRead(st, res) == \E n \in DOMAIN res.reads : st[n].ver # res.reads[n]

\* line 230: the attempt failed or has nothing to apply
UpdateFailed(res) == res.err \/ Len(res.updates) = 0

\* faulty variant: the balance check is missing
OverdrawsNever(st, res) == FALSE

\* lines 239-247: some update, taken alone, would make its account negative
Overdraws(st, res) ==
  \E j \in 1..Len(res.updates) :
     ToInt(st[res.updates[j].Name].bal) + res.updates[j].BalanceChange < 0

\* faulty variant: each update bumps the version of every account of the
\* store instead of the version of the account it names
RECURSIVE ApplyUpdatesBumpAll(_, _)
ApplyUpdatesBumpAll(st, ups) ==
  IF Len(ups) = 0 THEN st
  ELSE LET u == Head(ups)
           st1 == [st EXCEPT ![u.Name].bal = ToUint(@ + ToUint(u.BalanceChange))]
       IN  ApplyUpdatesBumpAll(
             [n \in NameSet |-> IF st1[n].exists THEN [st1[n] EXCEPT !.ver = @ + 1]
                                ELSE st1[n]],
             Tail(ups))

\* faulty variant: the commit loop stops after the first update
ApplyFirstUpdate(st, ups) ==
  IF Len(ups) = 0 THEN st
  ELSE [st EXCEPT ![Head(ups).Name].bal = ToUint(@ + ToUint(Head(ups).BalanceChange)),
                  ![Head(ups).Name].ver = @ + 1]

\* faulty variant: the version is bumped once per written account, not per update
RECURSIVE ApplyUpdatesVerOnce(_, _)
ApplyUpdatesVerOnce(st, ups) ==
  IF Len(ups) = 0 THEN st
  ELSE LET u == Head(ups)
           again == \E j \in 2..Len(ups) : ups[j].Name = u.Name
       IN  ApplyUpdatesVerOnce(
             [st EXCEPT ![u.Name].bal = ToUint(@ + ToUint(u.BalanceChange)),
                        ![u.Name].ver = IF again THEN @ ELSE @ + 1],
             Tail(ups))

\* lines 250-254: ac.bal += uint(u.BalanceChange); ac.ver++ for each update
RECURSIVE ApplyUpdates(_, _)
ApplyUpdates(st, ups) ==
  IF Len(ups) = 0 THEN st
  ELSE LET u == Head(ups)
       IN  ApplyUpdates([st EXCEPT ![u.Name].bal = ToUint(@ + ToUint(u.BalanceChange)),
                                   ![u.Name].ver = @ + 1],
                        Tail(ups))

\* the same updates in exact integer arithmetic (history only)
RECURSIVE ApplyExact(_, _)
ApplyExact(ex, ups) ==
  IF Len(ups) = 0 THEN ex
  ELSE ApplyExact([ex EXCEPT ![Head(ups).Name] = @ + Head(ups).BalanceChange], Tail(ups))

\* the verdict of commitTx once every touched account is locked
Verdict(st, res) ==
  IF StaleRead(st, res) THEN "Conflict"
  ELSE IF UpdateFailed(res) THEN "TerminalFailure"
  ELSE IF Overdraws(st, res) THEN "TerminalFailure"
  ELSE "Committed"

\* faulty variant: the dispatch loop sends every index twice
SendIdxTwice(ch, idx) == Append(Append(ch, idx), idx)

(* ----------------------------- sequencer ------------------------------ *)
\* execCh <- idx: the work channel after the send
SendIdx(ch, idx) == Append(ch, idx)

\* faulty variant: commitTx returns without releasing its locks
UnlockNone(m) == m

\* lines 221-223, 231-233, 242-244, 255-257: every lock commitTx took is released
UnlockAll(m) == [n \in NameSet |-> IF m[n] = SeqId THEN Free ELSE m[n]]

\* lines 149-151: execCh <- i
Dispatch ==
  /\ spc = "dispatch"
  /\ i < N
  /\ Len(execCh) < N
  /\ execCh' = SendIdx(execCh, i)
  /\ i' = i + 1
  /\ UNCHANGED <<block, Workers, initial, state, mu, execClosed, resCh, wk, spc, k,
                 ready, r, locked, ok, final, outcome, finalized, arrivals, evals, att, exact>>

\* the dispatch loop is over: k := 0 and the commit loop starts
DispatchDone ==
  /\ spc = "dispatch"
  /\ i = N
  /\ spc' = "loop"
  /\ UNCHANGED <<block, Workers, initial, state, mu, execCh, execClosed, resCh, wk, i,
                 k, ready, r, locked, ok, final, outcome, finalized, arrivals, evals, att, exact>>

\* lines 161-166: ready[k] is missing: r = <-resCh; ready[r.idx] = r; continue
SeqRecv ==
  /\ spc = "loop"
  /\ k < N
  /\ k \notin DOMAIN ready
  /\ Len(resCh) > 0
  /\ ready' = (Head(resCh).idx :> Head(resCh)) @@ ready
  /\ resCh' = Tail(resCh)
  /\ arrivals' = Append(arrivals, Head(resCh).idx)
  /\ UNCHANGED <<block, Workers, initial, state, mu, execCh, execClosed, wk, spc, i, k,
                 r, locked, ok, final, outcome, finalized, evals, att, exact>>

\* faulty variant: the sequencer commits whatever result is parked
NextToCommitAny(rd, kk) ==
  IF kk \in DOMAIN rd \/ DOMAIN rd = {} THEN kk ELSE CHOOSE x \in DOMAIN rd : TRUE

\* line 161: the index whose parked result the sequencer hands to commitTx
NextToCommit(rd, kk) == kk

\* lines 161, 169: r = ready[k]; commitTx(r) is entered
SeqTake ==
  /\ spc = "loop"
  /\ k < N
  /\ NextToCommit(ready, k) \in DOMAIN ready
  /\ r' = ready[NextToCommit(ready, k)]
  /\ locked' = 0
  /\ spc' = "lock"
  /\ UNCHANGED <<block, Workers, initial, state, mu, execCh, execClosed, resCh, wk, i,
                 k, ready, ok, final, outcome, finalized, arrivals, evals, att, exact>>

\* lines 212-216: a := ensureAcct(n); a.mu.Lock(), for the next name
CommitLock ==
  /\ spc = "lock"
  /\ locked < Len(TouchedNames(r))
  /\ LET n == TouchedNames(r)[locked + 1]
     IN  /\ mu[n] = Free
         /\ state' = ensureAcct(state, n)
         /\ mu' = [mu EXCEPT ![n] = SeqId]
  /\ locked' = locked + 1
  /\ UNCHANGED <<block, Workers, initial, execCh, execClosed, resCh, wk, spc, i, k,
                 ready, r, ok, final, outcome, finalized, arrivals, evals, att, exact>>

\* lines 218-259: with every touched account locked: version check, failed
\* update, balance check, commit; every lock taken is released; return
CommitDecide ==
  /\ spc = "lock"
  /\ locked = Len(TouchedNames(r))
  /\ LET v == Verdict(state, r)
     IN  /\ outcome' = v
         /\ ok' = (v # "Conflict")
         /\ state' = IF v = "Committed" THEN ApplyUpdates(state, r.updates) ELSE state
         /\ exact' = IF v = "Committed" THEN ApplyExact(exact, r.updates) ELSE exact
  /\ mu' = UnlockAll(mu)
  /\ locked' = 0
  /\ spc' = "decided"
  /\ UNCHANGED <<block, Workers, initial, execCh, execClosed, resCh, wk, i, k, ready, r,
                 final, finalized, arrivals, evals, att>>

\* lines 169-171: commitTx returned true: delete(ready, k); k++
SeqAdvance ==
  /\ spc = "decided"
  /\ ok
  /\ ready' = MapDel(ready, k)
  /\ k' = k + 1
  /\ finalized' = Append(finalized, r.idx)
  /\ r' = NoResult
  /\ spc' = "loop"
  /\ UNCHANGED <<block, Workers, initial, state, mu, execCh, execClosed, resCh, wk, i,
                 locked, ok, final, outcome, arrivals, evals, att, exact>>

\* faulty variant: the retry branch sends the index twice
RedispatchTwice(ch, kk) == Append(Append(ch, kk), kk)

\* faulty variant: the retry is never put back on the work channel
RedispatchLost(ch, kk) == ch

\* line 175: execCh <- k
Redispatch(ch, kk) == SendIdx(ch, kk)

\* lines 172-176: commitTx returned false: delete(ready, k); execCh <- k
SeqRetry ==
  /\ spc = "decided"
  /\ ~ok
  /\ Len(execCh) < N
  /\ ready' = MapDel(ready, k)
  /\ execCh' = Redispatch(execCh, k)
  /\ r' = NoResult
  /\ spc' = "loop"
  /\ UNCHANGED <<block, Workers, initial, state, mu, execClosed, resCh, wk, i, k,
                 locked, ok, final, outcome, finalized, arrivals, evals, att, exact>>

\* line 179: the loop ends at k == N: close(execCh)
SeqClose ==
  /\ spc = "loop"
  /\ k >= N
  /\ execClosed' = TRUE
  /\ spc' = "collect"
  /\ UNCHANGED <<block, Workers, initial, state, mu, execCh, resCh, wk, i, k, ready, r,
                 locked, ok, final, outcome, finalized, arrivals, evals, att, exact>>

\* faulty variant: the collected accounts are returned without sorting them
\* (here: in descending name order, one order state.Range may produce)
SnapshotUnsorted(st) ==
  LET present == SortStrings({n \in NameSet : st[n].exists})
      len == Len(present)
  IN  [j \in 1..len |-> [Name |-> present[len + 1 - j],
                         Balance |-> st[present[len + 1 - j]].bal]]

\* lines 183-189: every stored account as AccountValue, sorted by name
Snapshot(st) ==
  LET present == SortStrings({n \in NameSet : st[n].exists})
  IN  [j \in 1..Len(present) |-> [Name |-> present[j], Balance |-> st[present[j]].bal]]

\* lines 182-190: collect final state and return it
SeqCollect ==
  /\ spc = "collect"
  /\ final' = Snapshot(state)
  /\ spc' = "done"
  /\ UNCHANGED <<block, Workers, initial, state, mu, execCh, execClosed, resCh, wk, i,
                 k, ready, r, locked, ok, outcome, finalized, arrivals, evals, att, exact>>

Worker(w) ==
  \/ WorkerRecv(w)
  \/ WorkerExit(w)
  \/ GetAccountLock(w)
  \/ GetAccountRead(w)
  \/ WorkerSend(w)

Sequencer ==
  \/ Dispatch
  \/ DispatchDone
  \/ SeqRecv
  \/ SeqTake
  \/ CommitLock
  \/ CommitDecide
  \/ SeqAdvance
  \/ SeqRetry
  \/ SeqClose
  \/ SeqCollect

Next == Sequencer \/ \E w \in WorkerIds : Worker(w)

Spec == Init /\ [][Next]_vars

\* The Go scheduler runs every runnable goroutine: the sequencer and each
\* worker take a step when one stays possible.
FairSpec ==
  /\ Spec
  /\ WF_vars(Sequencer)
  /\ \A w \in WorkerIds : WF_vars(Worker(w))

(* ----------------------- sequential reference ------------------------- *)
\* One transaction's Updates run alone against the store st: every
\* GetAccount creates the entry if absent and returns the current balance.
RECURSIVE RunUpdates(_, _, _)
RunUpdates(tx, st, obs) ==
  LET n == NextRead(tx, obs)
  IN  IF n = NoName THEN [st |-> st, res |-> UpdatesOf(tx, obs)]
      ELSE RunUpdates(tx, ensureAcct(st, n), Append(obs, ensureAcct(st, n)[n].bal))

\* the store with every account named by ups present
RECURSIVE EnsureAll(_, _)
EnsureAll(st, ups) ==
  IF Len(ups) = 0 THEN st ELSE EnsureAll(ensureAcct(st, Head(ups).Name), Tail(ups))

\* The strictly sequential evaluator: one transaction at a time, in block
\* order, each evaluated against the current state and then handed to the
\* validator's steps 4-6: a transaction whose Updates returned an error or
\* an empty list is skipped, so is one the balance check rejects, any other
\* has its updates applied.
RECURSIVE SequentialEval(_, _)
SequentialEval(txs, st) ==
  IF Len(txs) = 0 THEN st
  ELSE LET run == RunUpdates(Head(txs), st, <<>>)
           res == [idx |-> 0, updates |-> run.res.updates, reads |-> EmptyMap,
                   err |-> run.res.err]
           st2 == EnsureAll(run.st, res.updates)
       IN  IF UpdateFailed(res) \/ Overdraws(st2, res)
           THEN SequentialEval(Tail(txs), st2)
           ELSE SequentialEval(Tail(txs), ApplyUpdates(st2, res.updates))

(* ------------------------------ claims -------------------------------- *)
\* C1: the account list ExecuteBlock returns equals the result of the
\* strictly sequential evaluator, for every block, initial state, number of
\* workers and interleaving.
C1_Determinism ==
  spc = "done" => final = Snapshot(SequentialEval(block, ResetState(initial)))

\* C1 (case reached): a block has run to its end after an attempt was
\* discarded for a stale read.
C1_Reached == spc = "done" /\ \E j \in DOMAIN evals : evals[j] >= 2

\* C2: transactions are finalized in strictly increasing index order
\* 0, 1, ..., N-1: the finalized indices are always exactly 0..k-1 in order,
\* none skipped and none twice, whatever order the results arrive in.
C2_CommitOrder ==
  /\ Len(finalized) = k
  /\ \A j \in 1..Len(finalized) : finalized[j] = j - 1

\* C2 witness: the result of index 1 reached the sequencer before that of
\* index 0, and both indices have been finalized.
C2_Witness ==
  /\ Len(finalized) = 2
  /\ Len(arrivals) >= 2
  /\ arrivals[1] = 1

\* C3: every account's balance, computed in exact integer arithmetic, is
\* never negative: no commit drives a balance below zero.
C3_NonNegative == \A n \in NameSet : exact[n] >= 0

\* C4: under fair scheduling of the workers and the sequencer, ExecuteBlock
\* eventually reaches k == N and returns.
C4_Terminates == <>(spc = "done" /\ k = N)

\* C4 witness: ExecuteBlock has returned after at least one retry.
C4_Witness == spc = "done" /\ k = N /\ N > 0 /\ \E j \in DOMAIN evals : evals[j] >= 2

\* position of a name in the ascending order of names
NameIdx(n) == CHOOSE j \in 1..Len(Names) : Names[j] = n

\* the mutexes a thread holds
HeldBy(t) == {n \in NameSet : mu[n] = t}

\* C5: no deadlock is reachable while k < N (some thread can always take a
\* step); a worker holds at most one account mutex and only inside
\* GetAccount; the sequencer holds mutexes only inside commitTx, where every
\* mutex it holds precedes, in name order, every touched name it has not
\* locked yet; no thread holds a mutex while it waits on a channel.
C5_NoDeadlock ==
  /\ k < N => ENABLED Next
  /\ \A w \in WorkerIds :
       /\ Cardinality(HeldBy(w)) <= 1
       /\ HeldBy(w) # {} => (wk[w].pc = "locked" /\ HeldBy(w) = {wk[w].lock})
  /\ HeldBy(SeqId) # {} => spc = "lock"
  /\ spc = "lock" =>
       LET touched == {TouchedNames(r)[j] : j \in 1..Len(TouchedNames(r))}
       IN  /\ HeldBy(SeqId) \subseteq touched
           /\ Cardinality(HeldBy(SeqId)) = locked
           /\ \A h \in HeldBy(SeqId) : \A u \in touched \ HeldBy(SeqId) :
                NameIdx(h) < NameIdx(u)

\* C5 witness: commitTx holds one mutex and waits for the next one, which
\* a worker holds inside GetAccount.
C5_Witness ==
  /\ k < N
  /\ spc = "lock"
  /\ Cardinality(HeldBy(SeqId)) = 1
  /\ locked < Len(TouchedNames(r))
  /\ \E w \in WorkerIds : mu[TouchedNames(r)[locked + 1]] = w

\* how many updates of the list name the account n
UpdatesNaming(ups, n) == Cardinality({j \in 1..Len(ups) : ups[j].Name = n})

\* the step in which commitTx applies the updates of r
CommitStep == spc = "lock" /\ spc' = "decided" /\ outcome' = "Committed"

\* C6 (as stated): a version never decreases; a successful commit raises the
\* version of every account it writes by exactly 1, also when its update
\* list names the account more than once; no other step changes a version.
C6_VersionPlusOne ==
  [][\A n \in NameSet :
       state'[n].ver = state[n].ver
                       + (IF CommitStep /\ UpdatesNaming(r.updates, n) >= 1 THEN 1 ELSE 0)]_vars

\* C6 (amended): a version never decreases; a successful commit raises the
\* version of every account it writes by the number of updates of its list
\* that name the account (by 1 when it is named once); no other step
\* changes a version.
C6_VersionPerUpdate ==
  [][\A n \in NameSet :
       state'[n].ver = state[n].ver
                       + (IF CommitStep THEN UpdatesNaming(r.updates, n) ELSE 0)]_vars

\* C6 witness: a commit has just applied an update list that names one
\* account twice and another account once.
C6_Witness ==
  /\ spc = "decided"
  /\ outcome = "Committed"
  /\ \E n \in NameSet : UpdatesNaming(r.updates, n) = 2 /\ state[n].ver >= 2
  /\ \E n \in NameSet : UpdatesNaming(r.updates, n) = 1 /\ state[n].ver >= 1

\* the name the j-th GetAccount call of worker w's attempt asked for
ReadName(w, j) == NextRead(block[wk[w].idx + 1], SubSeq(wk[w].obs, 1, j - 1))

\* C7: within one attempt, every GetAccount(name) after the first returns
\* the balance the first GetAccount(name) of that attempt returned.
C7_StableReads ==
  \A w \in WorkerIds :
    wk[w].pc \in {"run", "locked"} =>
      \A j1, j2 \in 1..Len(wk[w].obs) :
        (j1 < j2 /\ ReadName(w, j1) = ReadName(w, j2)) => wk[w].obs[j1] = wk[w].obs[j2]

\* the step in which commitTx, holding every lock, reaches its verdict
DecideStep == spc = "lock" /\ spc' = "decided"

\* the step in which the sequencer acts on the value commitTx returned
AfterDecideStep == spc = "decided" /\ spc' # "decided"

\* C8: an attempt that passes the version check and has an error, an empty
\* update list or an update u with balance(u.name) + u.balance_change < 0 is
\* finalized as TerminalFailure: no account's balance or version changes,
\* every lock is released, and then k advances by exactly 1 with nothing
\* put on the work channel.
C8_TerminalFailure ==
  [][/\ ( /\ DecideStep
          /\ \A n \in DOMAIN r.reads : state[n].ver = r.reads[n]
          /\ \/ r.err
             \/ Len(r.updates) = 0
             \/ \E j \in 1..Len(r.updates) :
                  ToInt(state[r.updates[j].Name].bal) + r.updates[j].BalanceChange < 0 )
        => /\ outcome' = "TerminalFailure"
           /\ ok'
           /\ state' = state
           /\ HeldBy(SeqId)' = {}
           /\ k' = k
           /\ execCh' = execCh
     /\ (AfterDecideStep /\ outcome = "TerminalFailure")
        => /\ k' = k + 1
           /\ finalized' = Append(finalized, k)
           /\ execCh' = execCh
           /\ k \notin DOMAIN ready'
           /\ state' = state
           /\ mu' = mu]_vars

\* C8 witness: commitTx has just rejected, after a passed version check, an
\* error-free, non-empty update list whose debit exceeds the balance.
C8_Witness ==
  /\ spc = "decided"
  /\ outcome = "TerminalFailure"
  /\ ~r.err
  /\ Len(r.updates) > 0
  /\ HeldBy(SeqId) = {}

\* C9: commitTx returns Conflict exactly when some (name, v) of the read-set
\* has v different from the account's current version; on Conflict no
\* balance or version changes, every lock is released, k stays, and index k
\* alone is put on the work channel, once. Nothing but a Conflict puts an
\* index on the work channel after the initial dispatch.
C9_Conflict ==
  [][/\ DecideStep
        => /\ (outcome' = "Conflict")
                <=> (\E n \in DOMAIN r.reads : state[n].ver # r.reads[n])
           /\ ok' = (outcome' # "Conflict")
           /\ outcome' = "Conflict"
                => /\ state' = state
                   /\ HeldBy(SeqId)' = {}
                   /\ k' = k
                   /\ execCh' = execCh
     /\ (AfterDecideStep /\ outcome = "Conflict")
        => /\ k' = k
           /\ execCh' = Append(execCh, k)
           /\ k \notin DOMAIN ready'
           /\ finalized' = finalized
           /\ state' = state
     /\ (spc # "dispatch" /\ Len(execCh') > Len(execCh))
        => (AfterDecideStep /\ outcome = "Conflict")]_vars

\* C9 witness: index 1 was rejected for a stale read and is back on the
\* work channel, the cursor still at 1.
C9_Witness ==
  /\ spc = "loop"
  /\ outcome = "Conflict"
  /\ k = 1
  /\ execCh = <<1>>
  /\ 1 \notin DOMAIN ready

\* sum of the balances of a store
RECURSIVE SumOver(_, _)
SumOver(st, j) == IF j = 0 THEN 0 ELSE st[Names[j]].bal + SumOver(st, j - 1)
SumBal(st) == SumOver(st, Len(Names))

RECURSIVE SumFinal(_)
SumFinal(list) == IF Len(list) = 0 THEN 0 ELSE Head(list).Balance + SumFinal(Tail(list))

\* the block holds Transfer and BatchTransfer transactions only
ClosedBlock == \A j \in 1..Len(block) : block[j].kind \in {"Transfer", "BatchTransfer"}

\* C10: for a block of Transfer and BatchTransfer transactions the sum of
\* all balances equals the sum of the initial balances in every state and
\* in the returned list; the pair Transfer(A,B,1), Transfer(B,A,1) returns
\* A and B to their initial balances.
C10_Conservation ==
  ClosedBlock =>
    /\ SumBal(state) = SumBal(ResetState(initial))
    /\ spc = "done" => SumFinal(final) = SumBal(ResetState(initial))
    /\ (spc = "done" /\ block = <<Transfer("A", "B", 1), Transfer("B", "A", 1)>>)
         => \A n \in NameSet : state[n].bal = ResetState(initial)[n].bal

\* C10 witness: the pair Transfer(A,B,1), Transfer(B,A,1) has run to the end
\* with a conflict and a retry of the second transfer.
C10_Witness ==
  /\ spc = "done"
  /\ block = <<Transfer("A", "B", 1), Transfer("B", "A", 1)>>
  /\ evals[1] >= 2
  /\ state["A"].ver = 2

(* ------------------------------ C11 ------------------------------------- *)

\* the names a transaction can read or name in an update list
TxNames(tx) ==
  ({tx.from} \cup {tx.tos[j] : j \in 1..Len(tx.tos)}
             \cup {tx.ups[j].Name : j \in 1..Len(tx.ups)}) \ {NoName}

\* the transactions that debit the account they read first
DebitKinds == {"Transfer", "Withdraw", "BatchTransfer", "FeeSplit"}

C11_DebitWitness ==
  /\ spc = "done"
  /\ block = <<Transfer("B", "A", 1)>>
  /\ final = <<[Name |-> "A", Balance |-> 1], [Name |-> "B", Balance |-> 0]>>

(* ------------------------------ C12 ------------------------------------- *)

\* C12: on the empty block, for every number of workers, nothing is ever
\* dispatched, evaluated, received or committed, every account keeps its
\* initial balance and version 0, no account is created, and the returned
\* list holds exactly the initial accounts with their initial balances in
\* ascending name order.
C12_EmptyBlock ==
  N = 0 =>
    /\ execCh = <<>> /\ resCh = <<>> /\ ready = EmptyMap /\ arrivals = <<>>
    /\ k = 0 /\ finalized = <<>>
    /\ \A w \in WorkerIds : wk[w].pc \in {"idle", "exit"}
    /\ \A n \in NameSet :
         /\ state[n].exists = (n \in DOMAIN initial)
         /\ state[n].ver = 0
         /\ n \in DOMAIN initial => state[n].bal = initial[n]
    /\ spc = "done" =>
         /\ Len(final) = Cardinality(DOMAIN initial)
         /\ \A j \in 1..Len(final) :
              /\ final[j].Name \in DOMAIN initial
              /\ final[j].Balance = initial[final[j].Name]
         /\ \A j1, j2 \in 1..Len(final) :
              j1 < j2 => NameIdx(final[j1].Name) < NameIdx(final[j2].Name)

\* C12 witness: the empty block was executed with two workers on a store of
\* two accounts; both workers have returned and both accounts are listed.
C12_Witness ==
  /\ N = 0
  /\ Workers = 2
  /\ spc = "done"
  /\ Len(final) = 2
  /\ \A w \in WorkerIds : wk[w].pc = "exit"

(* ------------------------------ C13 ------------------------------------- *)

\* the account the latest attempt of index idx read with its j-th GetAccount
AttemptRead(idx, j) == NextRead(block[idx + 1], SubSeq(att[idx].obs, 1, j - 1))

\* the latest attempt of index idx saw a balance that is not the account's
\* balance now
SawOtherBalance(idx) ==
  \E j \in 1..Len(att[idx].obs) : att[idx].obs[j] # state[AttemptRead(idx, j)].bal

\* C13: commitTx always validates the attempt of the cursor index; when it
\* finalizes it (Committed or TerminalFailure) every account the attempt
\* read still has the version the attempt recorded, every balance the
\* attempt observed is the account's current balance, and its updates and
\* error are those of an evaluation on the current state; an attempt that
\* observed a balance changed since is declared Conflict and re-dispatched,
\* whether it returned updates or an error. Between commits the balances
\* are those the sequential evaluator reaches on transactions 0..k-1.
C13_ValidatedAgainstCurrent ==
  /\ [](spc # "decided" =>
          \A n \in NameSet :
            state[n].bal = SequentialEval(SubSeq(block, 1, k), ResetState(initial))[n].bal)
  /\ [][(spc = "lock" /\ spc' = "decided")
        => /\ r.idx = k
           /\ SawOtherBalance(k) => outcome' = "Conflict"
           /\ outcome' \in {"Committed", "TerminalFailure"}
                => /\ \A n \in DOMAIN r.reads : state[n].ver = r.reads[n]
                   /\ ~SawOtherBalance(k)
                   /\ r.err = RunUpdates(block[k + 1], state, <<>>).res.err
                   /\ r.updates = RunUpdates(block[k + 1], state, <<>>).res.updates
           /\ outcome' = "Conflict" => (ok' = FALSE /\ state' = state /\ k' = k)
     ]_vars

\* C13 witness: on {A:1}, the first attempt of Transfer{B,A,1} saw B at 0
\* and returned an error; Transfer{A,B,1} was committed first, so the
\* attempt was rejected, index 1 was evaluated again and is now committed.
C13_Witness ==
  /\ DOMAIN initial = {"A"}
  /\ block = <<Transfer("A", "B", 1), Transfer("B", "A", 1)>>
  /\ k = 1
  /\ spc = "decided"
  /\ outcome = "Committed"
  /\ evals[1] = 2

(* ------------------------------ C14 ------------------------------------- *)

\* C14: every index is evaluated at most twice; an attempt that a worker
\* started when the cursor had reached its index is never declared
\* Conflict; only the first attempt of an index is ever re-dispatched, so
\* each index is re-dispatched at most once.
C14_AtMostTwice ==
  /\ [](\A j \in DOMAIN evals : evals[j] <= 2)
  /\ [][/\ (spc = "lock" /\ spc' = "decided" /\ att[k].late)
           => outcome' # "Conflict"
        /\ (spc = "lock" /\ spc' = "decided" /\ outcome' = "Conflict")
           => evals[k] = 1
        /\ Len(execCh') > Len(execCh) /\ spc # "dispatch"
           => (evals[k] = 1 /\ execCh' = Append(execCh, k))
     ]_vars

\* C14 witness: the second attempt of an index, started with the cursor on
\* it, has been finalized.
C14_Witness ==
  /\ spc = "decided"
  /\ outcome # "Conflict"
  /\ att[k].late
  /\ evals[k] = 2

\* C14 witness of a first attempt started with the cursor on its index
C14_LateFirstAttempt ==
  /\ spc = "decided"
  /\ k = 1
  /\ att[k].late
  /\ evals[k] = 1

(* ------------------------------ C15 ------------------------------------- *)

\* the attempts of index idx that exist: queued on the work channel, being
\* evaluated by a worker, waiting on the result channel, parked in ready
Outstanding(idx) ==
  Cardinality({j \in 1..Len(execCh) : execCh[j] = idx})
  + Cardinality({w \in WorkerIds : wk[w].pc \in {"run", "locked"} /\ wk[w].idx = idx})
  + Cardinality({j \in 1..Len(resCh) : resCh[j].idx = idx})
  + (IF idx \in DOMAIN ready THEN 1 ELSE 0)

\* C15 (as stated): at every moment every index i >= k has exactly one
\* outstanding attempt and every index i < k has none.
C15_OneAttemptAlways ==
  \A idx \in 0..(N - 1) : Outstanding(idx) = (IF idx >= k THEN 1 ELSE 0)

\* C15 (amended): every index i >= k that the dispatch loop has sent has
\* exactly one outstanding attempt, every other index has none; a result
\* received from the result channel is never parked over a result already
\* parked for its index, and the result commitTx validates is the parked
\* result of k, the only attempt of k that exists.
C15_OneAttempt ==
  /\ [](/\ \A idx \in 0..(N - 1) :
            Outstanding(idx) = (IF idx >= k /\ idx < i THEN 1 ELSE 0)
        /\ spc \in {"lock", "decided"}
             => (k \in DOMAIN ready /\ ready[k] = r /\ r.idx = k))
  /\ [][Len(resCh') < Len(resCh)
          => /\ Head(resCh).idx \notin DOMAIN ready
             /\ ready' = (Head(resCh).idx :> Head(resCh)) @@ ready]_vars

\* C15 witness: the result of index 1 is parked while the only attempt of
\* index 0 is still being evaluated.
C15_Witness ==
  /\ k = 0
  /\ i = 2
  /\ 1 \in DOMAIN ready
  /\ \E w \in WorkerIds : wk[w].pc \in {"run", "locked"} /\ wk[w].idx = 0

(* ------------------------------ C16 ------------------------------------- *)

\* C16: a successful commit leaves every account its update list does not
\* name exactly as it was (also an account the attempt read, also one
\* outside the touched set), and changes every account the list names: its
\* version rises, also when the attempt never read it; an attempt validated
\* later that recorded the earlier version of a written account is
\* declared Conflict.
C16_CommitFrame ==
  [][/\ (spc = "lock" /\ spc' = "decided" /\ outcome' = "Committed")
        => \A n \in NameSet :
             /\ UpdatesNaming(r.updates, n) = 0 => state'[n] = state[n]
             /\ UpdatesNaming(r.updates, n) > 0
                  => /\ state[n].exists /\ state'[n].exists
                     /\ state'[n].ver = state[n].ver + UpdatesNaming(r.updates, n)
     /\ (spc = "lock" /\ spc' = "decided"
           /\ \E n \in DOMAIN r.reads : r.reads[n] < state[n].ver)
        => (outcome' = "Conflict" /\ state' = state)]_vars

\* C16 witness: on {A:1} the commit of Bonus{A,B,1}, which read A and
\* credits B without having read it, left A at version 0 and raised B.
C16_Witness ==
  /\ DOMAIN initial = {"A"}
  /\ k = 0
  /\ block = <<Bonus("A", "B", 1)>>
  /\ spc = "decided"
  /\ outcome = "Committed"
  /\ r.reads = ("A" :> 0)
  /\ state["A"] = [exists |-> TRUE, bal |-> 1, ver |-> 0]
  /\ state["B"] = [exists |-> TRUE, bal |-> 1, ver |-> 1]

\* C16 witness of the invalidation: Deposit{A,1} wrote A without reading
\* it, and the attempt of Withdraw{A,1} that had read A before is rejected.
C16_BlindWriteConflict ==
  /\ block = <<Deposit("A", 1), Withdraw("A", 1)>>
  /\ k = 1
  /\ spc = "decided"
  /\ outcome = "Conflict"

(* ------------------------------ C17 ------------------------------------- *)

\* C17: a step of a worker changes no balance and no version; the only
\* change it makes to the store is the creation, at balance 0 and version
\* 0, of the entry of the name its GetAccount is reading. A balance or a
\* version changes only in the commit step of commitTx, and only of an
\* account whose mutex commitTx holds; an account a worker has locked
\* inside GetAccount does not change.
C17_WorkersReadOnly ==
  [][/\ \A n \in NameSet :
          (state'[n].bal # state[n].bal \/ state'[n].ver # state[n].ver)
          => /\ spc = "lock" /\ spc' = "decided" /\ outcome' = "Committed"
             /\ mu[n] = SeqId
             /\ wk' = wk
     /\ \A w \in WorkerIds :
          wk'[w] # wk[w]
          => \A n \in NameSet :
               /\ state[n].exists => state'[n] = state[n]
               /\ (~state[n].exists /\ state'[n].exists)
                    => /\ state'[n] = [exists |-> TRUE, bal |-> 0, ver |-> 0]
                       /\ wk[w].pc = "run"
                       /\ n = NextRead(block[wk[w].idx + 1], wk[w].obs)
     /\ \A w \in WorkerIds :
          wk[w].pc = "locked" => state'[wk[w].lock] = state[wk[w].lock]
    ]_vars

\* C17 witness: a commit has just changed an account that a worker read
\* earlier in an attempt it is still evaluating.
C17_Witness ==
  /\ spc = "decided"
  /\ outcome = "Committed"
  /\ \E w \in WorkerIds :
       /\ wk[w].pc = "run"
       /\ \E n \in DOMAIN wk[w].reads : wk[w].reads[n] < state[n].ver

(* ------------------------------ C18 ------------------------------------- *)

\* C18: neither channel ever holds more than N items, and no send finds its
\* channel full: the work channel has room whenever the dispatch loop is
\* about to send an index and whenever the sequencer is about to
\* re-dispatch k, and the result channel has room whenever a worker has
\* finished an evaluation and is about to publish its result.
C18_ChannelsNeverFull ==
  /\ Len(execCh) <= N
  /\ Len(resCh) <= N
  /\ (spc = "dispatch" /\ i < N) => Len(execCh) < N
  /\ (spc = "decided" /\ ~ok) => Len(execCh) < N
  /\ \A w \in WorkerIds :
       (wk[w].pc = "run" /\ NextRead(block[wk[w].idx + 1], wk[w].obs) = NoName)
       => Len(resCh) < N

\* C18 witness: the result channel is filled to its capacity.
C18_Witness ==
  /\ N = 2
  /\ Len(resCh) = N

\* C18 witness of the re-dispatch: the sequencer is about to send k again
\* while the work channel is empty and no other attempt exists.
C18_RetrySend ==
  /\ N = 2
  /\ spc = "decided"
  /\ ~ok
  /\ Len(execCh) = 0

(* ------------------------------ C19 ------------------------------------- *)

\* C19: once the cursor is at N the work channel, the result channel and
\* ready are empty, no worker is evaluating a transaction, no mutex is
\* held and the store never changes again: the list returned equals the
\* accounts of the store, and no account is created after it was taken.
C19_Quiescent ==
  /\ [](k = N =>
          /\ execCh = <<>> /\ resCh = <<>> /\ ready = EmptyMap
          /\ \A w \in WorkerIds : wk[w].pc \in {"idle", "exit"}
          /\ \A n \in NameSet : mu[n] = Free
          /\ spc \in {"dispatch", "loop", "collect", "done"}
          /\ spc = "done" =>
               /\ Len(final) = Cardinality({n \in NameSet : state[n].exists})
               /\ \A j \in 1..Len(final) :
                    /\ state[final[j].Name].exists
                    /\ final[j].Balance = state[final[j].Name].bal)
  /\ [][k = N => (state' = state /\ mu' = mu /\ k' = k)]_vars

\* C19 witness: the cursor has just reached N = 2 after an index was
\* evaluated twice; the channel is not closed yet.
C19_Witness ==
  /\ N = 2
  /\ k = N
  /\ spc = "loop"
  /\ ~execClosed
  /\ \E j \in DOMAIN evals : evals[j] = 2

(* ------------------------------ C20 ------------------------------------- *)

\* the worker goroutines ExecuteBlock started have all returned
AllWorkersExited == \A w \in WorkerIds : w <= Workers => wk[w].pc = "exit"

\* C20: once the sequencer has closed the work channel, every worker
\* ExecuteBlock started eventually leaves its loop and returns.
C20_WorkersExit == execClosed ~> AllWorkersExited

\* C20 witness: the work channel of a block of two transactions is closed
\* and both workers have returned.
C20_Witness ==
  /\ N = 2
  /\ Workers = 2
  /\ execClosed
  /\ AllWorkersExited

====
